---- MODULE Spec2Model ----
(***************************************************************************)
(* Model of OpenPecha/stt-training-data: the audio splitter                *)
(* (split_audio.py, both variants) and the segment-log parser / manifest   *)
(* assembler (generate_csv_file.py, drupchen_training_data_format.py).     *)
(*                                                                         *)
(* Text is modelled character by character: a string is a sequence of      *)
(* one-character strings, so that formatting (f-strings), the regular      *)
(* expression SEGMENT_PATTERN, str.split, str.strip and float() are        *)
(* computed as the code computes them.                                     *)
(***************************************************************************)
EXTENDS Integers, Sequences, FiniteSets, TLC

VARIABLES
    pc,            \* position of the running entry point
    csv,           \* the timing CSV of the current recording: rows of supplied cells
    df,            \* the DataFrame read from it (rows of four named cells)
    index,         \* iterrows position (0-based), rows before it are done
    prefix,        \* filename prefix of the current split_audio_file call
    cur,           \* output directory of the current split_audio_file call
    disk,          \* output directories: cur -> [files, log]
    exported,      \* per directory: names passed to segment.export in this run
    outcome,       \* per directory: what happened to each row in this run
    audio_files,   \* batch splitter: the recordings found by glob("*.mp3")
    idx,           \* batch splitter: enumerate position (0-based)
    audio_folders, \* manifest assembler: the input folder list
    fpos,          \* manifest assembler: folders already handled
    data,          \* manifest assembler: rows collected so far
    contributed,   \* manifest assembler: rows each handled folder added
    manifest,      \* the manifest file: [written, header, rows]
    variant        \* which module is running

vars == <<pc, csv, df, index, prefix, cur, disk, exported, outcome,
          audio_files, idx, audio_folders, fpos, data, contributed,
          manifest, variant>>

(***************************************************************************)
(* Bounds of the model.                                                    *)
(***************************************************************************)
MaxRows == 2        \* rows of a timing CSV (single-file splitter)
MaxRecordings == 2  \* recordings in the batch splitter's input directory
MaxFolders == 2     \* folders in the manifest assembler's input list

(***************************************************************************)
(* Characters and strings.                                                 *)
(***************************************************************************)
\* The characters used, in code-point order (Python compares str by code point).
CodePoints ==
    <<"\t", "\n", "\r", " ", "(", ")", "-", ".", "/",
      "0", "1", "2", "3", "4", "5", "6", "7", "8", "9", ":", "=",
      "A", "B", "C", "D", "E", "F", "G", "H", "I", "J", "K", "L", "M",
      "N", "O", "P", "Q", "R", "S", "T", "U", "V", "W", "X", "Y", "Z", "_",
      "a", "b", "c", "d", "e", "f", "g", "h", "i", "j", "k", "l", "m",
      "n", "o", "p", "q", "r", "s", "t", "u", "v", "w", "x", "y", "z">>

Ord(c) == CHOOSE i \in 1..Len(CodePoints) : CodePoints[i] = c

DIGITS == <<"0", "1", "2", "3", "4", "5", "6", "7", "8", "9">>

IsDigit(c) == \E i \in 1..Len(DIGITS) : DIGITS[i] = c

DigitVal(c) == (CHOOSE i \in 1..Len(DIGITS) : DIGITS[i] = c) - 1

\* str < str in Python: first differing code point, a proper prefix is smaller.
RECURSIVE StrLess(_, _)
StrLess(a, b) ==
    IF a = <<>> THEN b # <<>>
    ELSE IF b = <<>> THEN FALSE
    ELSE IF Head(a) = Head(b) THEN StrLess(Tail(a), Tail(b))
    ELSE Ord(Head(a)) < Ord(Head(b))

StartsWith(s, p) == Len(s) >= Len(p) /\ SubSeq(s, 1, Len(p)) = p

\* s[pos:].startswith(p), pos 1-based
HasAt(s, pos, p) ==
    pos + Len(p) - 1 <= Len(s) /\ SubSeq(s, pos, pos + Len(p) - 1) = p

\* str(n) for n >= 0
RECURSIVE NatStr(_)
NatStr(n) == IF n < 10 THEN <<DIGITS[n + 1]>>
             ELSE NatStr(n \div 10) \o <<DIGITS[(n % 10) + 1]>>

\* f"{n}" of an int
IntStr(n) == IF n < 0 THEN <<"-">> \o NatStr(0 - n) ELSE NatStr(n)

RECURSIVE ZeroFill(_, _)
ZeroFill(s, width) == IF Len(s) >= width THEN s ELSE ZeroFill(<<"0">> \o s, width)

SEQ_WIDTH == 4

\* f"{n:04d}": the sign counts in the width and goes before the zeros
Pad4(n) == IF n < 0 THEN <<"-">> \o ZeroFill(NatStr(0 - n), SEQ_WIDTH - 1)
           ELSE ZeroFill(NatStr(n), SEQ_WIDTH)

\* ms/1000 is a binary float; a value whose third decimal is 5 is rounded by
\* "%.2f" to whichever side the float lies on.  These are the magnitudes,
\* among those the model uses, whose float lies above the decimal value.
TieRoundsUp == {5, 25}

Hundredths(a) ==
    IF a % 10 > 5 \/ (a % 10 = 5 /\ a \in TieRoundsUp) THEN (a \div 10) + 1
    ELSE a \div 10

\* f"{ms/1000:.2f}"
Fmt2(ms) ==
    LET a == IF ms < 0 THEN 0 - ms ELSE ms
        h == Hundredths(a)
    IN  (IF ms < 0 THEN <<"-">> ELSE <<>>)
        \o NatStr(h \div 100) \o <<".">> \o ZeroFill(NatStr(h % 100), 2)

WHITESPACE == {" ", "\t", "\n", "\r"}

RECURSIVE LStrip(_)
LStrip(s) == IF s # <<>> /\ Head(s) \in WHITESPACE THEN LStrip(Tail(s)) ELSE s

RECURSIVE RStrip(_)
RStrip(s) == IF s # <<>> /\ s[Len(s)] \in WHITESPACE
             THEN RStrip(SubSeq(s, 1, Len(s) - 1)) ELSE s

\* str.strip()
Strip(s) == RStrip(LStrip(s))

\* s.split("_"): the list of tokens between underscores
RECURSIVE SplitFrom(_, _, _)
SplitFrom(s, pos, tok) ==
    IF pos > Len(s) THEN <<tok>>
    ELSE IF s[pos] = "_" THEN <<tok>> \o SplitFrom(s, pos + 1, <<>>)
    ELSE SplitFrom(s, pos + 1, Append(tok, s[pos]))

SplitUnderscore(s) == SplitFrom(s, 1, <<>>)

RECURSIVE Repeat(_, _)
Repeat(c, n) == IF n = 0 THEN <<>> ELSE <<c>> \o Repeat(c, n - 1)

(***************************************************************************)
(* Timing CSV and DataFrame cells.                                         *)
(***************************************************************************)
\* A parsed cell: an integer, a non-numeric text, or NaN (no value supplied).
IntCell(n) == [k |-> "int", n |-> n, s |-> <<>>]

StrCell(s) == [k |-> "str", n |-> 0, s |-> s]

NaN == [k |-> "nan", n |-> 0, s |-> <<>>]

COLUMNS == 4

\* pd.read_csv(header=None, names=[four names]): a line that supplies fewer
\* cells than names is padded with NaN; the index is 0, 1, 2, ...
\* (the padding cell taken to be 0)
CellAtZeroPadded(line, c) == IF c <= Len(line) THEN line[c] ELSE IntCell(0)

CellAt(line, c) == IF c <= Len(line) THEN line[c] ELSE NaN

read_csv(lines) ==
    [i \in 1..Len(lines) |->
        [start_time    |-> CellAt(lines[i], 1),
         end_time      |-> CellAt(lines[i], 2),
         duration      |-> CellAt(lines[i], 3),
         transcription |-> CellAt(lines[i], COLUMNS)]]

\* int(cell): ValueError for NaN and for non-numeric text
IntOk(cell) == cell.k = "int"

\* f"{cell}"
FStr(cell) == IF cell.k = "str" THEN cell.s
              ELSE IF cell.k = "int" THEN IntStr(cell.n)
              ELSE <<"n", "a", "n">>

(***************************************************************************)
(* split_audio.py                                                          *)
(***************************************************************************)
format_time(start_ms, end_ms) ==
    IntStr(start_ms) \o <<"_", "t", "o", "_">> \o IntStr(end_ms)

LOG_HEADER ==
    <<"S", "e", "g", "m", "e", "n", "t", " ", "L", "o", "g", "\n",
      "=", "=", "=", "=", "=", "=", "=", "=", "=", "=", "=", "\n", "\n">>

LIT_SEGMENT == <<"S", "e", "g", "m", "e", "n", "t", " ">>

LIT_TIME == <<"T", "i", "m", "e", ":", " ">>

LIT_S_DASH == <<"s", " ", "-", " ">>

LIT_S_DUR == <<"s", " ", "(", "d", "u", "r", "a", "t", "i", "o", "n", ":", " ">>

LIT_S_CLOSE == <<"s", ")">>

LIT_FILENAME == <<"F", "i", "l", "e", "n", "a", "m", "e", ":", " ">>

LIT_TRANSCRIPTION ==
    <<"T", "r", "a", "n", "s", "c", "r", "i", "p", "t", "i", "o", "n", ":", " ">>

SEPARATOR_WIDTH == 80

\* f"{prefix}_{segment_number}_{time_range}.wav"
SegmentFilename(pfx, i, start_time, end_time) ==
    pfx \o <<"_">> \o Pad4(i + 1) \o <<"_">> \o format_time(start_time, end_time)
        \o <<".", "w", "a", "v">>

\* (the block numbered by the 0-based index)
BlockTextZeroBased(i, start_time, end_time, duration, name, transcription) ==
    LIT_SEGMENT \o Pad4(i) \o <<"\n">>
    \o LIT_TIME \o Fmt2(start_time) \o LIT_S_DASH \o Fmt2(end_time)
        \o LIT_S_DUR \o Fmt2(duration) \o LIT_S_CLOSE \o <<"\n">>
    \o LIT_FILENAME \o name \o <<"\n">>
    \o LIT_TRANSCRIPTION \o FStr(transcription) \o <<"\n">>
    \o Repeat("-", SEPARATOR_WIDTH) \o <<"\n", "\n">>

\* the five writes of the "a" block
BlockText(i, start_time, end_time, duration, name, transcription) ==
    LIT_SEGMENT \o Pad4(i + 1) \o <<"\n">>
    \o LIT_TIME \o Fmt2(start_time) \o LIT_S_DASH \o Fmt2(end_time)
        \o LIT_S_DUR \o Fmt2(duration) \o LIT_S_CLOSE \o <<"\n">>
    \o LIT_FILENAME \o name \o <<"\n">>
    \o LIT_TRANSCRIPTION \o FStr(transcription) \o <<"\n">>
    \o Repeat("-", SEPARATOR_WIDTH) \o <<"\n", "\n">>

\* An output directory: the segment files (name -> exported slice) and
\* segments_log.txt.
EmptyDir == [files |-> <<>>, has_log |-> FALSE, log |-> <<>>]

PutFile(files, name, content) ==
    [n \in (DOMAIN files) \cup {name} |-> IF n = name THEN content ELSE files[n]]

\* (the header opened with "a", after whatever the log already held)
WriteHeaderAppends(dir) ==
    [dir EXCEPT !.has_log = TRUE, !.log = dir.log \o LOG_HEADER]

\* open(log_file, "w") and the two header writes
WriteHeader(dir) == [dir EXCEPT !.has_log = TRUE, !.log = LOG_HEADER]

\* open(log_file, "a") and the block's writes
AppendBlock(dir, block) == [dir EXCEPT !.has_log = TRUE, !.log = dir.log \o block]

\* audio[start_time:end_time]
Slice(start_time, end_time) == <<start_time, end_time>>

\* What the environment does to one row: nothing, segment.export raises, or
\* opening the log for append raises.
RowEnvs == {"ok", "export_fails", "log_fails"}

\* (the block appended before segment.export is called)
RowAttemptLogsFirst(dir, pfx, i, row, env) ==
    IF ~(IntOk(row.start_time) /\ IntOk(row.end_time) /\ IntOk(row.duration))
    THEN [dir |-> dir, exported |-> <<>>, outcome |-> "cast"]
    ELSE
      LET start_time == row.start_time.n
          end_time   == row.end_time.n
          duration   == row.duration.n
          name       == SegmentFilename(pfx, i, start_time, end_time)
          withBlock  == AppendBlock(dir,
                            BlockText(i, start_time, end_time, duration, name,
                                      row.transcription))
      IN  IF env = "log_fails"
          THEN [dir |-> dir, exported |-> <<>>, outcome |-> "log"]
          ELSE IF env = "export_fails"
          THEN [dir |-> withBlock, exported |-> <<>>, outcome |-> "export"]
          ELSE [dir |-> [withBlock EXCEPT !.files =
                            PutFile(dir.files, name, Slice(start_time, end_time))],
                exported |-> <<name>>, outcome |-> "ok"]

\* The body of the row loop's try, for the row at iterrows position i
\* (0-based).  Returns the directory, the name exported (or <<>>) and what
\* happened: "ok", or the step whose exception the except clause caught.
RowAttempt(dir, pfx, i, row, env) ==
    IF ~(IntOk(row.start_time) /\ IntOk(row.end_time) /\ IntOk(row.duration))
    THEN [dir |-> dir, exported |-> <<>>, outcome |-> "cast"]
    ELSE
      LET start_time == row.start_time.n
          end_time   == row.end_time.n
          duration   == row.duration.n
          name       == SegmentFilename(pfx, i, start_time, end_time)
          withFile   == [dir EXCEPT !.files =
                            PutFile(dir.files, name, Slice(start_time, end_time))]
      IN  IF env = "export_fails"
          THEN [dir |-> dir, exported |-> <<>>, outcome |-> "export"]
          ELSE IF env = "log_fails"
          THEN [dir |-> withFile, exported |-> <<name>>, outcome |-> "log"]
          ELSE [dir |-> AppendBlock(withFile,
                            BlockText(i, start_time, end_time, duration, name,
                                      row.transcription)),
                exported |-> <<name>>, outcome |-> "ok"]

(***************************************************************************)
(* generate_csv_file.py / drupchen_training_data_format.py                 *)
(***************************************************************************)
CLOUDFRONT_URL ==
    <<"h", "t", "t", "p", "s", ":", "/", "/", "d", "3", "8", "p", "m", "l", "k",
      "0", "v", "8", "8", "d", "r", "f", ".", "c", "l", "o", "u", "d", "f", "r",
      "o", "n", "t", ".", "n", "e", "t", "/", "w", "a", "v", "1", "6", "k", "/">>

LOG_PREFIX == <<"s", "e", "g", "m", "e", "n", "t", "s", "_", "l", "o", "g">>

LOG_NAME == <<"s", "e", "g", "m", "e", "n", "t", "s", "_", "l", "o", "g",
              ".", "t", "x", "t">>

\* Character classes of SEGMENT_PATTERN: \d, [\d.] and . (anything but \n)
InClass(c, class) ==
    IF class = "digit" THEN IsDigit(c)
    ELSE IF class = "digit_dot" THEN IsDigit(c) \/ c = "."
    ELSE c # "\n"

\* End (exclusive) of the longest run of class characters starting at pos.
RECURSIVE RunEnd(_, _, _)
RunEnd(s, pos, class) ==
    IF pos <= Len(s) /\ InClass(s[pos], class) THEN RunEnd(s, pos + 1, class)
    ELSE pos

NoMatch == [ok |-> FALSE, groups |-> <<>>, end |-> 0]

\* SEGMENT_PATTERN matched at pos.  Every quantified class is followed by a
\* literal whose first character is outside the class, so the greedy run is
\* the only candidate and no backtracking can succeed where this fails.
MatchAt(s, pos) ==
    IF ~HasAt(s, pos, LIT_SEGMENT) THEN NoMatch ELSE
    LET a1 == pos + Len(LIT_SEGMENT)
        a2 == RunEnd(s, a1, "digit")
        lit1 == <<"\n">> \o LIT_TIME
    IN  IF a2 = a1 \/ ~HasAt(s, a2, lit1) THEN NoMatch ELSE
    LET b1 == a2 + Len(lit1)
        b2 == RunEnd(s, b1, "digit_dot")
    IN  IF b2 = b1 \/ ~HasAt(s, b2, LIT_S_DASH) THEN NoMatch ELSE
    LET c1 == b2 + Len(LIT_S_DASH)
        c2 == RunEnd(s, c1, "digit_dot")
    IN  IF c2 = c1 \/ ~HasAt(s, c2, LIT_S_DUR) THEN NoMatch ELSE
    LET d1 == c2 + Len(LIT_S_DUR)
        d2 == RunEnd(s, d1, "digit_dot")
        lit2 == LIT_S_CLOSE \o <<"\n">> \o LIT_FILENAME
    IN  IF d2 = d1 \/ ~HasAt(s, d2, lit2) THEN NoMatch ELSE
    LET e1 == d2 + Len(lit2)
        e2 == RunEnd(s, e1, "any")
        lit3 == <<"\n">> \o LIT_TRANSCRIPTION
    IN  IF e2 = e1 \/ ~HasAt(s, e2, lit3) THEN NoMatch ELSE
    LET f1 == e2 + Len(lit3)
        f2 == RunEnd(s, f1, "any")
    IN  IF f2 = f1 THEN NoMatch ELSE
        [ok |-> TRUE,
         groups |-> <<SubSeq(s, a1, a2 - 1), SubSeq(s, b1, b2 - 1),
                      SubSeq(s, c1, c2 - 1), SubSeq(s, d1, d2 - 1),
                      SubSeq(s, e1, e2 - 1), SubSeq(s, f1, f2 - 1)>>,
         end |-> f2]

\* re.findall: the leftmost match, then the leftmost match at or after its
\* end, and so on.  starts holds the positions at which the pattern matches.
RECURSIVE FindAll(_, _, _)
FindAll(s, starts, pos) ==
    LET later == {p \in starts : p >= pos}
    IN  IF later = {} THEN <<>>
        ELSE LET p == CHOOSE x \in later : \A y \in later : x <= y
                 m == MatchAt(s, p)
             IN  <<m.groups>> \o FindAll(s, starts, m.end)

extract_segments(log_content) ==
    FindAll(log_content,
            {p \in 1..Len(log_content) : MatchAt(log_content, p).ok}, 1)

construct_audio_url(filename) == CLOUDFRONT_URL \o filename

\* A float, as the decimal it denotes: integer part and fraction digits
\* without trailing zeros.
RECURSIVE DropTrailingZeros(_)
DropTrailingZeros(s) ==
    IF s # <<>> /\ s[Len(s)] = "0" THEN DropTrailingZeros(SubSeq(s, 1, Len(s) - 1))
    ELSE s

RECURSIVE DigitsValue(_)
DigitsValue(s) == IF s = <<>> THEN 0
                  ELSE 10 * DigitsValue(SubSeq(s, 1, Len(s) - 1)) + DigitVal(s[Len(s)])

\* float(text) for a text of digits and dots (what group 4 can hold):
\* ValueError unless there is a digit and at most one dot.
ParseFloat(text) ==
    LET p == RunEnd(text, 1, "digit")
        q == IF p <= Len(text) /\ text[p] = "." THEN RunEnd(text, p + 1, "digit") ELSE p
        int  == SubSeq(text, 1, p - 1)
        frac == IF q > p THEN SubSeq(text, p + 1, q - 1) ELSE <<>>
    IN  IF q = Len(text) + 1 /\ Len(int) + Len(frac) > 0
        THEN [ok |-> TRUE, int |-> DigitsValue(int), frac |-> DropTrailingZeros(frac)]
        ELSE [ok |-> FALSE, int |-> 0, frac |-> <<>>]

\* (the department taken from the first token)
SegmentRowFirstToken(segment) ==
    LET filename == segment[5]
        tokens   == SplitUnderscore(filename)
        seconds  == ParseFloat(segment[4])
    IN  IF Len(tokens) < 2 \/ ~seconds.ok
        THEN [ok |-> FALSE, row |-> <<>>]
        ELSE [ok |-> TRUE,
              row |-> [file_name |-> filename,
                       dept |-> tokens[1],
                       audio_url |-> construct_audio_url(filename),
                       audio_duration_in_seconds |->
                           [int |-> seconds.int, frac |-> seconds.frac],
                       transcript |-> Strip(segment[6])]]

\* The loop body of process_segments for one findall tuple: the row, or
\* raised (IndexError from split("_")[1], ValueError from float()).
SegmentRow(segment) ==
    LET filename == segment[5]
        tokens   == SplitUnderscore(filename)
        seconds  == ParseFloat(segment[4])
    IN  IF Len(tokens) < 2 \/ ~seconds.ok
        THEN [ok |-> FALSE, row |-> <<>>]
        ELSE [ok |-> TRUE,
              row |-> [file_name |-> filename,
                       dept |-> tokens[2],
                       audio_url |-> construct_audio_url(filename),
                       audio_duration_in_seconds |->
                           [int |-> seconds.int, frac |-> seconds.frac],
                       transcript |-> Strip(segment[6])]]

\* (a segment that raises is skipped and the others are kept)
RECURSIVE process_segments_skips_bad(_)
process_segments_skips_bad(segments) ==
    IF segments = <<>> THEN [ok |-> TRUE, rows |-> <<>>]
    ELSE LET first == SegmentRow(Head(segments))
             rest  == process_segments_skips_bad(Tail(segments))
         IN  [ok |-> TRUE,
              rows |-> (IF first.ok THEN <<first.row>> ELSE <<>>) \o rest.rows]

\* process_segments: the list of rows, or the exception of the first
\* segment that raises (the rows built before it are lost with the frame).
RECURSIVE process_segments(_)
process_segments(segments) ==
    IF segments = <<>> THEN [ok |-> TRUE, rows |-> <<>>]
    ELSE LET first == SegmentRow(Head(segments))
             rest  == process_segments(Tail(segments))
         IN  IF first.ok /\ rest.ok
             THEN [ok |-> TRUE, rows |-> <<first.row>> \o rest.rows]
             ELSE [ok |-> FALSE, rows |-> <<>>]

\* os.listdir(folder): the names in the directory, in the order the
\* operating system gives them.
RECURSIVE SetToSeq(_)
SetToSeq(S) == IF S = {} THEN <<>>
               ELSE LET x == CHOOSE y \in S : TRUE IN <<x>> \o SetToSeq(S \ {x})

ListDir(dir) ==
    SetToSeq(DOMAIN dir.files) \o (IF dir.has_log THEN <<LOG_NAME>> ELSE <<>>)

\* get_log_file: the first listed name that starts with 'segments_log', or
\* FileNotFoundError
get_log_file(dir) ==
    LET names == ListDir(dir)
        log_files == SelectSeq(names, LAMBDA f : StartsWith(f, LOG_PREFIX))
    IN  IF log_files = <<>> THEN [ok |-> FALSE, path |-> <<>>]
        ELSE [ok |-> TRUE, path |-> log_files[1]]

\* read_log_file: the content of the file at that path
read_log_file(dir, path) == IF path = LOG_NAME THEN dir.log ELSE <<>>

\* The try body of process_audio_folders for one folder: the rows it adds to
\* data, or raised.
FolderRows(dir) ==
    LET log_file_path == get_log_file(dir)
    IN  IF ~log_file_path.ok THEN [ok |-> FALSE, rows |-> <<>>]
        ELSE process_segments(extract_segments(read_log_file(dir, log_file_path.path)))

MANIFEST_HEADER ==
    <<<<"f", "i", "l", "e", "_", "n", "a", "m", "e">>,
      <<"d", "e", "p", "t">>,
      <<"a", "u", "d", "i", "o", "_", "u", "r", "l">>,
      <<"a", "u", "d", "i", "o", "_", "d", "u", "r", "a", "t", "i", "o", "n", "_",
        "i", "n", "_", "s", "e", "c", "o", "n", "d", "s">>,
      <<"t", "r", "a", "n", "s", "c", "r", "i", "p", "t">>>>

(***************************************************************************)
(* Inputs of the splitter.                                                 *)
(***************************************************************************)
\* Lines of a timing CSV, as lists of the cells they supply.
RowHello    == <<IntCell(0), IntCell(3000), IntCell(3000),
                 StrCell(<<"h", "e", "l", "l", "o">>)>>

RowPadded   == <<IntCell(3000), IntCell(4500), IntCell(1500),
                 StrCell(<<" ", "a", " ", "b", " ">>)>>

RowBadStart == <<StrCell(<<"x">>), IntCell(3000), IntCell(3000), StrCell(<<"c">>)>>

RowNoText   == <<IntCell(3000), IntCell(4500), IntCell(1500)>>

RowTwoCells == <<IntCell(0), IntCell(3000)>>

RowNegative == <<IntCell(0), IntCell(5), IntCell(-5), StrCell(<<"d">>)>>

RowTwoLines == <<IntCell(5), IntCell(5), IntCell(0), StrCell(<<"e", "\n", "f">>)>>

TimingLines == {RowHello, RowPadded, RowBadStart, RowNoText, RowTwoCells,
                RowNegative, RowTwoLines}

SeqsUpTo(S, n) == UNION {[1..m -> S] : m \in 1..n}

PREFIX_D002 == <<"S", "T", "T", "_", "T", "T", "_", "D", "0", "0", "2">>

\* What an earlier run over the same output directory left behind.
RowOld == [start_time |-> IntCell(7000), end_time |-> IntCell(9000),
           duration |-> IntCell(2000), transcription |-> StrCell(<<"o", "l", "d">>)]

StaleDir == RowAttempt(WriteHeader(EmptyDir), PREFIX_D002, 0, RowOld, "ok").dir

NoRun == [file |-> "pending", rows |-> <<>>]

(***************************************************************************)
(* split_audio_file, as called by main (Stt_Audio, fixed prefix) or by the *)
(* batch splitter (stt_training_data, prefix parameter).                   *)
(***************************************************************************)
\* What the environment does to the part before the row loop: nothing, a
\* path is missing (FileNotFoundError), read_csv raises (an empty or
\* unparsable file) or from_mp3 raises.
OpenEnvs == {"ok", "audio_missing", "csv_missing", "read_csv_raises", "decode_raises"}

\* Where control goes when split_audio_file returns.
AfterSplit(v) == IF v = "batch" THEN "batch_loop"
                 ELSE IF v = "roundtrip" THEN "read_back"
                 ELSE "done"

\* (the exception leaving the caller's loop, as with no try around the call)
AfterRaiseUncaught(v) == IF v = "roundtrip" THEN "read_back" ELSE "done"

\* Where control goes when split_audio_file raises: the batch loop's except
\* clause prints and goes on to the next recording; main's prints and ends.
AfterRaise(v) == IF v = "batch" THEN "batch_loop"
                 ELSE IF v = "roundtrip" THEN "read_back"
                 ELSE "done"

\* Lines 89-111: the existence checks, read_csv, from_mp3 and the log header.
SplitOpen ==
    /\ pc = "split_enter"
    /\ \E env \in OpenEnvs :
          IF env = "ok"
          THEN /\ df' = read_csv(csv)
               /\ disk' = [disk EXCEPT ![cur] = WriteHeader(@)]
               /\ index' = 0
               /\ outcome' = [outcome EXCEPT ![cur].file = "split"]
               /\ pc' = "rows"
               /\ idx' = idx
          ELSE /\ outcome' = [outcome EXCEPT ![cur].file = "raised"]
               /\ pc' = AfterRaise(variant)
               /\ idx' = IF variant = "batch" THEN idx + 1 ELSE idx
               /\ UNCHANGED <<df, disk, index>>
    /\ UNCHANGED <<csv, prefix, cur, exported, audio_files, audio_folders,
                   fpos, data, contributed, manifest, variant>>

\* (the except clause leaving the loop instead of continuing)
SplitRowBreaksOnError ==
    /\ pc = "rows"
    /\ index < Len(df)
    /\ \E env \in RowEnvs :
          LET r == RowAttempt(disk[cur], prefix, index, df[index + 1], env)
          IN  /\ disk' = [disk EXCEPT ![cur] = r.dir]
              /\ exported' = [exported EXCEPT ![cur] = @ \o r.exported]
              /\ outcome' = [outcome EXCEPT ![cur].rows = Append(@, r.outcome)]
              /\ index' = IF r.outcome = "ok" THEN index + 1 ELSE Len(df)
    /\ UNCHANGED <<pc, csv, df, prefix, cur, audio_files, idx, audio_folders,
                   fpos, data, contributed, manifest, variant>>

\* One iteration of "for index, row in df.iterrows()": the try body and its
\* except clause.
SplitRow ==
    /\ pc = "rows"
    /\ index < Len(df)
    /\ \E env \in RowEnvs :
          LET r == RowAttempt(disk[cur], prefix, index, df[index + 1], env)
          IN  /\ disk' = [disk EXCEPT ![cur] = r.dir]
              /\ exported' = [exported EXCEPT ![cur] = @ \o r.exported]
              /\ outcome' = [outcome EXCEPT ![cur].rows = Append(@, r.outcome)]
    /\ index' = index + 1
    /\ UNCHANGED <<pc, csv, df, prefix, cur, audio_files, idx, audio_folders,
                   fpos, data, contributed, manifest, variant>>

\* The loop is exhausted: the two closing prints, then return.
SplitReturn ==
    /\ pc = "rows"
    /\ index = Len(df)
    /\ pc' = AfterSplit(variant)
    /\ idx' = IF variant = "batch" THEN idx + 1 ELSE idx
    /\ UNCHANGED <<csv, df, index, prefix, cur, disk, exported, outcome,
                   audio_files, audio_folders, fpos, data, contributed,
                   manifest, variant>>

NoManifest == [written |-> FALSE, header |-> <<>>, rows |-> <<>>]

InitSingle ==
    /\ variant = "single"
    /\ pc = "split_enter"
    /\ csv \in SeqsUpTo(TimingLines, MaxRows)
    /\ df = <<>>
    /\ index = 0
    /\ prefix = PREFIX_D002
    /\ cur = 1
    /\ disk \in {[d \in {1} |-> EmptyDir], [d \in {1} |-> StaleDir]}
    /\ exported = [d \in {1} |-> <<>>]
    /\ outcome = [d \in {1} |-> NoRun]
    /\ audio_files = <<>>
    /\ idx = 0
    /\ audio_folders = <<>>
    /\ fpos = 0
    /\ data = <<>>
    /\ contributed = <<>>
    /\ manifest = NoManifest

NextSingle == SplitOpen \/ SplitRow \/ SplitReturn

Spec == InitSingle /\ [][NextSingle]_vars

(***************************************************************************)
(* split_audio_files_in_folder (stt_training_data/split_audio.py).         *)
(***************************************************************************)
\* The recordings of the input directory: whether <stem>.csv exists, and
\* its lines.  The recording at glob position j is split into directory j
\* (output_dir / stem; stems are distinct).
RecNoCsv == [has_csv |-> FALSE, csv |-> <<>>]

RecTwoRows == [has_csv |-> TRUE, csv |-> <<RowHello, RowPadded>>]

RecBadThenGood == [has_csv |-> TRUE, csv |-> <<RowBadStart, RowNoText>>]

RecOneRow == [has_csv |-> TRUE, csv |-> <<RowHello>>]

Recordings == {RecNoCsv, RecTwoRows, RecBadThenGood, RecOneRow}

PREFIX_WIDTH == 3

\* f"STT_TT_D{idx+1:03d}"
BatchPrefix(i) ==
    <<"S", "T", "T", "_", "T", "T", "_", "D">> \o ZeroFill(NatStr(i + 1), PREFIX_WIDTH)

\* Lines 59-62: the recording has no CSV beside it.
BatchSkip ==
    /\ pc = "batch_loop"
    /\ idx < Len(audio_files)
    /\ ~audio_files[idx + 1].has_csv
    /\ outcome' = [outcome EXCEPT ![idx + 1].file = "no_csv"]
    /\ idx' = idx + 1
    /\ UNCHANGED <<pc, csv, df, index, prefix, cur, disk, exported, audio_files,
                   audio_folders, fpos, data, contributed, manifest, variant>>

\* Lines 58, 64-66: the call of split_audio_file for the next recording.
BatchCall ==
    /\ pc = "batch_loop"
    /\ idx < Len(audio_files)
    /\ audio_files[idx + 1].has_csv
    /\ prefix' = BatchPrefix(idx)
    /\ cur' = idx + 1
    /\ csv' = audio_files[idx + 1].csv
    /\ df' = <<>>
    /\ index' = 0
    /\ pc' = "split_enter"
    /\ UNCHANGED <<disk, exported, outcome, audio_files, idx, audio_folders,
                   fpos, data, contributed, manifest, variant>>

\* The for loop over audio_files is exhausted.
BatchReturn ==
    /\ pc = "batch_loop"
    /\ idx = Len(audio_files)
    /\ pc' = "done"
    /\ UNCHANGED <<csv, df, index, prefix, cur, disk, exported, outcome,
                   audio_files, idx, audio_folders, fpos, data, contributed,
                   manifest, variant>>

InitBatch ==
    /\ variant = "batch"
    /\ pc = "batch_loop"
    /\ audio_files \in SeqsUpTo(Recordings, MaxRecordings)
    /\ idx = 0
    /\ csv = <<>>
    /\ df = <<>>
    /\ index = 0
    /\ prefix = <<>>
    /\ cur = 0
    /\ disk \in {[d \in 1..Len(audio_files) |-> EmptyDir],
                 [d \in 1..Len(audio_files) |-> StaleDir]}
    /\ exported = [d \in 1..Len(audio_files) |-> <<>>]
    /\ outcome = [d \in 1..Len(audio_files) |-> NoRun]
    /\ audio_folders = <<>>
    /\ fpos = 0
    /\ data = <<>>
    /\ contributed = <<>>
    /\ manifest = NoManifest

NextBatch == BatchSkip \/ BatchCall \/ BatchReturn
             \/ SplitOpen \/ SplitRow \/ SplitReturn

SpecBatch == InitBatch /\ [][NextBatch]_vars

(***************************************************************************)
(* process_audio_folders and save_to_csv (generate_csv_file.py: rows kept  *)
(* in collection order; drupchen_training_data_format.py: rows sorted).    *)
(***************************************************************************)
\* A log block with the given texts, for logs the splitter did not write.
RawBlock(number, start, end, duration, name, transcription) ==
    LIT_SEGMENT \o number \o <<"\n">>
    \o LIT_TIME \o start \o LIT_S_DASH \o end \o LIT_S_DUR \o duration
        \o LIT_S_CLOSE \o <<"\n">>
    \o LIT_FILENAME \o name \o <<"\n">>
    \o LIT_TRANSCRIPTION \o transcription \o <<"\n">>
    \o Repeat("-", SEPARATOR_WIDTH) \o <<"\n", "\n">>

PREFIX_D001 == <<"S", "T", "T", "_", "T", "T", "_", "D", "0", "0", "1">>

EXAMPLE_NAME ==
    <<"S", "T", "T", "_", "T", "T", "_", "D", "0", "0", "1", "_", "0", "0", "0", "1",
      "_", "0", "_", "t", "o", "_", "3", "0", "0", "0", ".", "w", "a", "v">>

\* What the splitter leaves for the lines 0,3000,3000,hello and
\* 3000,4500,1500," a b " under the prefix STT_TT_D001.
FolderGood ==
    RowAttempt(
        RowAttempt(WriteHeader(EmptyDir), PREFIX_D001, 0,
                   read_csv(<<RowHello>>)[1], "ok").dir,
        PREFIX_D001, 1, read_csv(<<RowPadded>>)[1], "ok").dir

\* Segment files, but no segments_log file.
FolderNoLog == [FolderGood EXCEPT !.has_log = FALSE, !.log = <<>>]

\* A log whose second block names a file without an underscore.
FolderBadName ==
    [EmptyDir EXCEPT !.has_log = TRUE, !.log =
        LOG_HEADER
        \o RawBlock(<<"0", "0", "0", "1">>, <<"0", ".", "0", "0">>,
                    <<"2", ".", "0", "0">>, <<"2", ".", "0", "0">>,
                    <<"S", "T", "T", "_", "A", "B", "_", "1", ".", "w", "a", "v">>,
                    <<"g">>)
        \o RawBlock(<<"0", "0", "0", "2">>, <<"2", ".", "0", "0">>,
                    <<"4", ".", "0", "0">>, <<"2", ".", "0", "0">>,
                    <<"c", "l", "i", "p", ".", "w", "a", "v">>, <<"h">>)]

\* A log of another recording split under the same prefix: its blocks are
\* not in file-name order and one names the same file as FolderGood's first.
FolderSameNames ==
    [EmptyDir EXCEPT !.has_log = TRUE, !.log =
        LOG_HEADER
        \o RawBlock(<<"0", "0", "0", "2">>, <<"3", ".", "0", "0">>,
                    <<"5", ".", "0", "0">>, <<"2", ".", "0", "0">>,
                    <<"S", "T", "T", "_", "T", "T", "_", "D", "0", "0", "1", "_",
                      "0", "0", "0", "2", "_", "3", "0", "0", "0", "_", "t", "o",
                      "_", "5", "0", "0", "0", ".", "w", "a", "v">>,
                    <<"z">>)
        \o RawBlock(<<"0", "0", "0", "1">>, <<"0", ".", "0", "0">>,
                    <<"3", ".", "0", "0">>, <<"3", ".", "0", "0">>,
                    EXAMPLE_NAME, <<"o", "t", "h", "e", "r">>)]

\* What the splitter leaves for the line 0,5,-5,d: a block the pattern
\* does not match.
FolderNoMatch ==
    RowAttempt(WriteHeader(EmptyDir), PREFIX_D002, 0,
               read_csv(<<RowNegative>>)[1], "ok").dir

\* A log whose block has a duration that float() rejects.
FolderBadFloat ==
    [EmptyDir EXCEPT !.has_log = TRUE, !.log =
        LOG_HEADER
        \o RawBlock(<<"0", "0", "0", "1">>, <<"0", ".", "0", "0">>,
                    <<"1", ".", "0", "0">>, <<"1", ".", "2", ".", "3">>,
                    <<"S", "T", "T", "_", "C", "D", "_", "1", ".", "w", "a", "v">>,
                    <<"k">>)]

\* What the splitter leaves for the lines 3000,4500,1500 and
\* 0,3000,3000,hello under the prefix STT_TT_D002.
FolderSecond ==
    RowAttempt(
        RowAttempt(WriteHeader(EmptyDir), PREFIX_D002, 0,
                   read_csv(<<RowNoText>>)[1], "ok").dir,
        PREFIX_D002, 1, read_csv(<<RowHello>>)[1], "ok").dir

\* The folders on disk; folder 0 does not exist.
Folders ==
    <<FolderGood, FolderNoLog, FolderBadName, FolderSameNames, FolderNoMatch,
      FolderBadFloat, FolderSecond>>

FolderIds == 0..Len(Folders)

\* The try body for the folder path f: os.listdir raises for a folder that
\* does not exist.
TryFolder(f) ==
    IF f \notin DOMAIN disk THEN [ok |-> FALSE, rows |-> <<>>]
    ELSE FolderRows(disk[f])

IndexPermutations(n) == {p \in [1..n -> 1..n] : \A i, j \in 1..n : p[i] = p[j] => i = j}

Sorted(rows) ==
    \A i \in 1..(Len(rows) - 1) : ~StrLess(rows[i + 1].file_name, rows[i].file_name)

\* (the frame left in collection order)
sort_values_unsorted(rows) == {rows}

\* df.sort_values(by="file_name"): the rows in ascending file_name order.
\* The default algorithm is not stable, so rows of equal file_name may come
\* out in any order.
sort_values(rows) ==
    {s \in {[i \in 1..Len(rows) |-> rows[p[i]]] : p \in IndexPermutations(Len(rows))} :
        Sorted(s)}

\* (nothing written for an empty frame)
to_csv_skips_empty(rows) ==
    IF rows = <<>> THEN NoManifest
    ELSE [written |-> TRUE, header |-> MANIFEST_HEADER, rows |-> rows]

\* pd.DataFrame(data, columns=[...]).to_csv(output_csv, index=False)
to_csv(rows) == [written |-> TRUE, header |-> MANIFEST_HEADER, rows |-> rows]

\* (the exception leaving process_audio_folders)
ProcessFolderUncaught ==
    /\ pc = "folders"
    /\ fpos < Len(audio_folders)
    /\ LET r == TryFolder(audio_folders[fpos + 1])
       IN  /\ data' = IF r.ok THEN data \o r.rows ELSE data
           /\ contributed' = Append(contributed, IF r.ok THEN r.rows ELSE <<>>)
           /\ pc' = IF r.ok THEN pc ELSE "done"
    /\ fpos' = fpos + 1
    /\ UNCHANGED <<csv, df, index, prefix, cur, disk, exported, outcome,
                   audio_files, idx, audio_folders, manifest, variant>>

\* One iteration of "for folder in audio_folders": the try body and its
\* except clause.
ProcessFolder ==
    /\ pc = "folders"
    /\ fpos < Len(audio_folders)
    /\ LET r == TryFolder(audio_folders[fpos + 1])
       IN  /\ data' = IF r.ok THEN data \o r.rows ELSE data
           /\ contributed' = Append(contributed, IF r.ok THEN r.rows ELSE <<>>)
    /\ fpos' = fpos + 1
    /\ UNCHANGED <<pc, csv, df, index, prefix, cur, disk, exported, outcome,
                   audio_files, idx, audio_folders, manifest, variant>>

\* save_to_csv of generate_csv_file.py
SaveToCsv ==
    /\ pc = "folders"
    /\ fpos = Len(audio_folders)
    /\ variant = "plain"
    /\ manifest' = to_csv(data)
    /\ pc' = "done"
    /\ UNCHANGED <<csv, df, index, prefix, cur, disk, exported, outcome,
                   audio_files, idx, audio_folders, fpos, data, contributed,
                   variant>>

\* save_to_csv of drupchen_training_data_format.py
SaveToCsvSorted ==
    /\ pc = "folders"
    /\ fpos = Len(audio_folders)
    /\ variant = "sorting"
    /\ \E sorted \in sort_values(data) : manifest' = to_csv(sorted)
    /\ pc' = "done"
    /\ UNCHANGED <<csv, df, index, prefix, cur, disk, exported, outcome,
                   audio_files, idx, audio_folders, fpos, data, contributed,
                   variant>>

InitManifest ==
    /\ variant \in {"plain", "sorting"}
    /\ pc = "folders"
    /\ audio_folders \in {<<>>} \cup SeqsUpTo(FolderIds, MaxFolders)
    /\ fpos = 0
    /\ data = <<>>
    /\ contributed = <<>>
    /\ manifest = NoManifest
    /\ disk = Folders
    /\ csv = <<>>
    /\ df = <<>>
    /\ index = 0
    /\ prefix = <<>>
    /\ cur = 0
    /\ exported = <<>>
    /\ outcome = <<>>
    /\ audio_files = <<>>
    /\ idx = 0

NextManifest == ProcessFolder \/ SaveToCsv \/ SaveToCsvSorted

SpecManifest == InitManifest /\ [][NextManifest]_vars

(***************************************************************************)
(* The splitter's output directory read back by the parser: get_log_file,  *)
(* read_log_file, extract_segments, process_segments.                      *)
(***************************************************************************)
ReadBack ==
    /\ pc = "read_back"
    /\ LET r == FolderRows(disk[cur])
       IN  /\ data' = r.rows
           /\ contributed' = <<r.rows>>
           /\ pc' = IF r.ok THEN "done" ELSE "read_failed"
    /\ fpos' = 1
    /\ UNCHANGED <<csv, df, index, prefix, cur, disk, exported, outcome,
                   audio_files, idx, audio_folders, manifest, variant>>

InitRoundTrip ==
    /\ variant = "roundtrip"
    /\ pc = "split_enter"
    /\ csv \in SeqsUpTo(TimingLines, MaxRows)
    /\ df = <<>>
    /\ index = 0
    /\ prefix = PREFIX_D002
    /\ cur = 1
    /\ disk \in {[d \in {1} |-> EmptyDir], [d \in {1} |-> StaleDir]}
    /\ exported = [d \in {1} |-> <<>>]
    /\ outcome = [d \in {1} |-> NoRun]
    /\ audio_files = <<>>
    /\ idx = 0
    /\ audio_folders = <<1>>
    /\ fpos = 0
    /\ data = <<>>
    /\ contributed = <<>>
    /\ manifest = NoManifest

NextRoundTrip == SplitOpen \/ SplitRow \/ SplitReturn \/ ReadBack

SpecRoundTrip == InitRoundTrip /\ [][NextRoundTrip]_vars

(***************************************************************************)
(* Reading a segment log line by line, and the timing CSV cell by cell,    *)
(* to state what a run must have left behind.                              *)
(***************************************************************************)
LineStarts(s) == {1} \cup {p + 1 : p \in {q \in 1..Len(s) : s[q] = "\n"}}

\* The set's elements in ascending order.
RECURSIVE Ascending(_)
Ascending(S) ==
    IF S = {} THEN <<>>
    ELSE LET m == CHOOSE x \in S : \A y \in S : x <= y
         IN  <<m>> \o Ascending(S \ {m})

\* The rest of every line that starts with lit, in file order.
LinesAfter(s, lit) ==
    LET at == Ascending({p \in LineStarts(s) : HasAt(s, p, lit)})
    IN  [i \in 1..Len(at) |->
            SubSeq(s, at[i] + Len(lit), RunEnd(s, at[i] + Len(lit), "any") - 1)]

AllDigits(t) == t # <<>> /\ \A i \in 1..Len(t) : IsDigit(t[i])

\* The sequence numbers of the log's "Segment NNNN" lines, in file order.
LoggedNumbers(s) ==
    LET t == SelectSeq(LinesAfter(s, LIT_SEGMENT), AllDigits)
    IN  [i \in 1..Len(t) |-> DigitsValue(t[i])]

LoggedFilenames(s) == LinesAfter(s, LIT_FILENAME)

LoggedTranscriptions(s) == LinesAfter(s, LIT_TRANSCRIPTION)

\* A CSV line whose first three cells are integers.
Castable(line) ==
    /\ Len(line) >= 3
    /\ \A c \in 1..3 : line[c].k = "int"

\* The sequence number a segment file's name carries (its fourth token).
NumberInName(name) == SplitUnderscore(name)[4]

RunOf(d) == outcome[d].rows

SplitFinished == variant = "single" /\ pc = "done" /\ outcome[1].file = "split"

Range(f) == {f[i] : i \in DOMAIN f}

(***************************************************************************)
(* C1: a timing CSV whose N rows are all valid (the three casts, the       *)
(* export and the log append succeed) makes one run of split_audio_file    *)
(* write exactly N segment files and leave a log of exactly N blocks,      *)
(* numbered 1..N in row order.                                             *)
(***************************************************************************)
C1_ExactlyNSegments ==
    ( /\ SplitFinished
      /\ \A i \in 1..Len(csv) : Castable(csv[i])
      /\ \A i \in 1..Len(RunOf(1)) : RunOf(1)[i] \notin {"export", "log"} )
    => LET N == Len(csv)
       IN  /\ Len(exported[1]) = N
           /\ Cardinality(Range(exported[1])) = N
           /\ Range(exported[1]) \subseteq DOMAIN disk[1].files
           /\ LoggedNumbers(disk[1].log) = [i \in 1..N |-> i]
           /\ LoggedFilenames(disk[1].log) = exported[1]
           /\ \A i \in 1..N : NumberInName(exported[1][i]) = Pad4(i)

\* A finished run over two valid rows, into a directory that held the log
\* and segment of an earlier run.
C1_Witness ==
    /\ SplitFinished
    /\ Len(csv) = 2
    /\ \A i \in 1..Len(csv) : Castable(csv[i])
    /\ RunOf(1) = <<"ok", "ok">>
    /\ Cardinality(DOMAIN disk[1].files) = 3

(***************************************************************************)
(* C2: round trip.  For any log written by split_audio_file, reading it    *)
(* back with extract_segments and process_segments gives as many records   *)
(* as blocks were written, with the written filenames and the original     *)
(* transcriptions (trimmed), in the same order.                            *)
(***************************************************************************)
C2_RoundTrip ==
    (variant = "roundtrip" /\ pc = "done" /\ outcome[1].file = "split") =>
       LET written == Ascending({i \in 1..Len(RunOf(1)) : RunOf(1)[i] = "ok"})
       IN  /\ Len(data) = Len(written)
           /\ \A k \in 1..Len(written) :
                 /\ data[k].file_name \in Range(exported[1])
                 /\ NumberInName(data[k].file_name) = Pad4(written[k])
                 /\ data[k].transcript = Strip(FStr(df[written[k]].transcription))

(***************************************************************************)
(* C4: a failure in one row (a cast, the export or the log append) never   *)
(* aborts the run: every row is attempted, a failed row leaves no block,   *)
(* and every row that does not fail is exported and logged under its own   *)
(* 1-based position.                                                       *)
(***************************************************************************)
C4_RowFailureSkipsOnlyThatRow ==
    SplitFinished =>
       LET rows == RunOf(1)
           good == {i \in 1..Len(csv) :
                        Castable(csv[i]) /\ i <= Len(rows)
                        /\ rows[i] \notin {"export", "log"}}
       IN  /\ Len(rows) = Len(csv)
           /\ \A i \in 1..Len(csv) : ~Castable(csv[i]) => rows[i] = "cast"
           /\ LoggedNumbers(disk[1].log) = Ascending(good)
           /\ \A i \in good :
                 \E n \in Range(exported[1]) :
                    /\ NumberInName(n) = Pad4(i)
                    /\ n \in DOMAIN disk[1].files
           /\ \A i \in 1..Len(rows) :
                 rows[i] \in {"cast", "export"} =>
                    \A n \in Range(exported[1]) : NumberInName(n) # Pad4(i)

\* A finished run in which a row failed and a later row was exported and
\* logged.
C4_Witness ==
    /\ SplitFinished
    /\ \E i, j \in 1..Len(RunOf(1)) :
          /\ i < j
          /\ RunOf(1)[i] \in {"cast", "export", "log"}
          /\ RunOf(1)[j] = "ok"
          /\ j \in Range(LoggedNumbers(disk[1].log))

(***************************************************************************)
(* C8 as stated: a timing row that supplies fewer than four fields yields  *)
(* no segment file and no log block (the load failing outright).           *)
(***************************************************************************)
C8_ShortRowYieldsNothing ==
    variant = "single" =>
       \A i \in 1..Len(RunOf(1)) :
          Len(csv[i]) < COLUMNS => RunOf(1)[i] \notin {"ok", "log"}

(***************************************************************************)
(* C8 amended: short rows do not fail the load.  A row that supplies fewer *)
(* than three fields fails its integer cast and is skipped alone, leaving  *)
(* no file and no block; a row that supplies start, end and duration but   *)
(* no transcription is exported and logged, its transcription reading      *)
(* "nan".                                                                  *)
(***************************************************************************)
C8_ShortRowsArePadded ==
    SplitFinished =>
       LET rows == RunOf(1)
           nums == LoggedNumbers(disk[1].log)
           text == LoggedTranscriptions(disk[1].log)
       IN  /\ Len(rows) = Len(csv)
           /\ Len(text) = Len(nums)
           /\ \A i \in 1..Len(csv) :
                 /\ Len(csv[i]) < 3 =>
                       /\ rows[i] = "cast"
                       /\ i \notin Range(nums)
                       /\ \A n \in Range(exported[1]) : NumberInName(n) # Pad4(i)
                 /\ (Len(csv[i]) = 3 /\ Castable(csv[i])) =>
                       /\ rows[i] # "cast"
                       /\ rows[i] = "ok" =>
                             \E k \in 1..Len(nums) :
                                /\ nums[k] = i
                                /\ text[k] = <<"n", "a", "n">>

\* A finished run over a two-cell row, which was skipped, and a three-cell
\* row, which was exported and logged.
C8_Witness ==
    /\ SplitFinished
    /\ \E i, j \in 1..Len(csv) :
          /\ Len(csv[i]) = 2 /\ RunOf(1)[i] = "cast"
          /\ Len(csv[j]) = 3 /\ RunOf(1)[j] = "ok"
          /\ j \in Range(LoggedNumbers(disk[1].log))

(***************************************************************************)
(* C10: in the batch splitter a file-level failure aborts only that        *)
(* recording.  A recording without a CSV, or whose split_audio_file call   *)
(* raises, writes nothing; every recording is still reached, every other   *)
(* recording is split (each row that does not fail is exported under the   *)
(* recording's own prefix and logged), and what a recording exported stays *)
(* in place while the later ones are handled.                              *)
(***************************************************************************)
C10_FileFailureSkipsOnlyThatFile ==
    variant = "batch" =>
       /\ pc = "done" => idx = Len(audio_files)
       /\ \A j \in 1..idx :
             LET rec == audio_files[j]
                 rows == RunOf(j)
             IN  /\ ~rec.has_csv =>
                       /\ outcome[j].file = "no_csv"
                       /\ exported[j] = <<>>
                       /\ disk[j] \in {EmptyDir, StaleDir}
                 /\ rec.has_csv => outcome[j].file \in {"raised", "split"}
                 /\ outcome[j].file = "raised" =>
                       /\ exported[j] = <<>>
                       /\ disk[j] \in {EmptyDir, StaleDir}
                 /\ outcome[j].file = "split" =>
                       /\ Len(rows) = Len(rec.csv)
                       /\ Range(exported[j]) \subseteq DOMAIN disk[j].files
                       /\ \A i \in 1..Len(rec.csv) :
                             (Castable(rec.csv[i]) /\ rows[i] \notin {"export", "log"}) =>
                                /\ i \in Range(LoggedNumbers(disk[j].log))
                                /\ \E n \in Range(exported[j]) :
                                      /\ NumberInName(n) = Pad4(i)
                                      /\ SplitUnderscore(n)[3] =
                                            <<"D">> \o ZeroFill(NatStr(j), PREFIX_WIDTH)

\* The batch has ended; one recording's call raised and another recording,
\* before or after it, was split with a row exported and logged.
C10_Witness ==
    /\ variant = "batch"
    /\ pc = "done"
    /\ \E j, k \in 1..Len(audio_files) :
          /\ outcome[j].file = "raised"
          /\ outcome[k].file = "split"
          /\ \E i \in 1..Len(RunOf(k)) : RunOf(k)[i] = "ok"
          /\ exported[k] # <<>>
          /\ Range(exported[k]) \subseteq DOMAIN disk[k].files

(***************************************************************************)
(* Manifest assembler: what a folder holds, and what the list of folders   *)
(* should yield.                                                           *)
(***************************************************************************)
FolderAt(k) == audio_folders[k]

\* The folder has no file whose name starts with 'segments_log'.
NoLogFile(f) ==
    \/ f \notin DOMAIN disk
    \/ /\ ~disk[f].has_log
       /\ \A n \in DOMAIN disk[f].files : ~StartsWith(n, LOG_PREFIX)

HasUnderscore(name) == \E i \in 1..Len(name) : name[i] = "_"

\* The folder's log has a matched block whose filename has no second token.
BadNameFolder(f) ==
    /\ ~NoLogFile(f)
    /\ \E seg \in Range(extract_segments(disk[f].log)) : ~HasUnderscore(seg[5])

RECURSIVE Concat(_)
Concat(ss) == IF ss = <<>> THEN <<>> ELSE Head(ss) \o Concat(Tail(ss))

Count(x, s) == Cardinality({i \in 1..Len(s) : s[i] = x})

SameBag(a, b) ==
    /\ Len(a) = Len(b)
    /\ \A x \in Range(a) \cup Range(b) : Count(x, a) = Count(x, b)

\* The rows a folder yields when it is processed on its own.
RowsAlone(f) == LET r == TryFolder(f) IN IF r.ok THEN r.rows ELSE <<>>

FileNames(rows) == [i \in 1..Len(rows) |-> rows[i].file_name]

(***************************************************************************)
(* C3: in generate_csv_file.process_audio_folders a folder without a       *)
(* 'segments_log' file contributes no row, and every other folder of the   *)
(* list, before or after it, still contributes all of its rows.            *)
(***************************************************************************)
C3_MissingLogSkipsOnlyThatFolder ==
    variant = "plain" =>
       /\ \A k \in 1..fpos : NoLogFile(FolderAt(k)) => contributed[k] = <<>>
       /\ pc = "done" =>
             /\ fpos = Len(audio_folders)
             /\ manifest.written
             /\ manifest.rows =
                   Concat([k \in 1..Len(audio_folders) |->
                             IF NoLogFile(FolderAt(k)) THEN <<>>
                             ELSE RowsAlone(FolderAt(k))])

\* The run has ended; a folder without a log was followed by the folder the
\* splitter filled, whose two rows are the manifest.
C3_Witness ==
    /\ variant = "plain"
    /\ pc = "done"
    /\ \E k, m \in 1..Len(audio_folders) :
          /\ k < m
          /\ NoLogFile(FolderAt(k))
          /\ FolderAt(m) = 1
    /\ FileNames(manifest.rows) = LoggedFilenames(disk[1].log)
    /\ Len(manifest.rows) = 2

(***************************************************************************)
(* C5: in drupchen_training_data_format, when a matched block of a         *)
(* folder's log has a filename with fewer than two '_' tokens, the whole   *)
(* folder contributes nothing, not even the rows of the blocks before the  *)
(* bad one, and the rows of the other folders are all kept.                *)
(***************************************************************************)
C5_BadFilenameDropsWholeFolder ==
    variant = "sorting" =>
       /\ \A k \in 1..fpos : BadNameFolder(FolderAt(k)) => contributed[k] = <<>>
       /\ pc = "done" =>
             /\ fpos = Len(audio_folders)
             /\ manifest.written
             /\ SameBag(manifest.rows,
                        Concat([k \in 1..Len(audio_folders) |->
                                  IF BadNameFolder(FolderAt(k)) THEN <<>>
                                  ELSE RowsAlone(FolderAt(k))]))
             /\ \A k \in 1..Len(audio_folders) :
                   BadNameFolder(FolderAt(k)) =>
                      \A name \in Range(FileNames(manifest.rows)) :
                         name \notin Range(LoggedFilenames(disk[FolderAt(k)].log))

\* The run has ended; the list held the folder whose second block is bad
\* (its first block is well formed) and the folder the splitter filled,
\* whose two rows are the manifest.
C5_Witness ==
    /\ variant = "sorting"
    /\ pc = "done"
    /\ \E k, m \in 1..Len(audio_folders) :
          /\ BadNameFolder(FolderAt(k))
          /\ HasUnderscore(extract_segments(disk[FolderAt(k)].log)[1][5])
          /\ FolderAt(m) = 1
    /\ Len(manifest.rows) = 2

(***************************************************************************)
(* C6 as stated: with the sorting save_to_csv the rows are in ascending    *)
(* file_name order and the written manifest is the same for every          *)
(* permutation of the folder list.                                         *)
(***************************************************************************)
\* The rows collected for a folder list, alone[f] being folder f's rows.
Collect(alone, folders) == Concat([k \in 1..Len(folders) |-> alone[folders[k]]])

\* The manifests the sorting variant can write for a folder list.
ManifestsOf(alone, folders) == sort_values(Collect(alone, folders))

RowsOfEach(folders) == [f \in Range(folders) |-> RowsAlone(f)]

Reorderings(folders) ==
    {[i \in 1..Len(folders) |-> folders[p[i]]] : p \in IndexPermutations(Len(folders))}

C6_SameForEveryOrder ==
    (variant = "sorting" /\ pc = "done") =>
       LET alone == RowsOfEach(audio_folders)
       IN  /\ Sorted(manifest.rows)
           /\ \A q \in Reorderings(audio_folders) :
                 ManifestsOf(alone, q) = {manifest.rows}

(***************************************************************************)
(* C6 amended: the rows are in ascending (non-strict) file_name order for  *)
(* every input; for every permutation of the folder list the manifest      *)
(* holds the same rows, and it is the same manifest when no two rows share *)
(* a file_name (rows of equal file_name may come out in any order).        *)
(***************************************************************************)
DistinctNames(rows) ==
    \A i, j \in 1..Len(rows) : rows[i].file_name = rows[j].file_name => i = j

C6_SortedSameRowsForEveryOrder ==
    (variant = "sorting" /\ pc = "done") =>
       LET alone == RowsOfEach(audio_folders)
       IN  /\ Sorted(manifest.rows)
           /\ SameBag(manifest.rows, data)
           /\ \A q \in Reorderings(audio_folders) :
                 \A m \in ManifestsOf(alone, q) :
                    /\ SameBag(m, manifest.rows)
                    /\ DistinctNames(manifest.rows) => m = manifest.rows

\* The run has ended over two different folders that both gave rows; the
\* rows were not collected in file-name order.
C6_Witness ==
    /\ variant = "sorting"
    /\ pc = "done"
    /\ Len(audio_folders) = 2
    /\ audio_folders[1] # audio_folders[2]
    /\ contributed[1] # <<>> /\ contributed[2] # <<>>
    /\ data # manifest.rows
    /\ DistinctNames(manifest.rows)

(***************************************************************************)
(* What one row must be, stated on the texts of the block it comes from.   *)
(***************************************************************************)
Underscores(name) == {i \in 1..Len(name) : name[i] = "_"}

\* The text between the first underscore and the second (or the end).
SecondToken(name) ==
    LET u1 == CHOOSE i \in Underscores(name) : \A j \in Underscores(name) : i <= j
        later == {i \in Underscores(name) : i > u1} \cup {Len(name) + 1}
        u2 == CHOOSE i \in later : \A j \in later : i <= j
    IN  SubSeq(name, u1 + 1, u2 - 1)

\* t is s without its leading and trailing whitespace.
IsTrimOf(t, s) ==
    /\ t # <<>> => (t[1] \notin WHITESPACE /\ t[Len(t)] \notin WHITESPACE)
    /\ \E a \in 0..(Len(s) - Len(t)) :
          /\ SubSeq(s, a + 1, a + Len(t)) = t
          /\ \A i \in (1..a) \cup ((a + Len(t) + 1)..Len(s)) : s[i] \in WHITESPACE

Dots(text) == {i \in 1..Len(text) : text[i] = "."}

\* The text denotes a decimal number: digits, at most one dot, a digit.
DecimalText(text) ==
    /\ \A i \in 1..Len(text) : IsDigit(text[i]) \/ text[i] = "."
    /\ Cardinality(Dots(text)) <= 1
    /\ \E i \in 1..Len(text) : IsDigit(text[i])

\* The number v is the one the decimal text denotes: the text and v written
\* out agree once the text's trailing fraction zeros are dropped.
IsValueOf(v, text) ==
    LET shown == NatStr(v.int) \o (IF v.frac = <<>> THEN <<>> ELSE <<".">> \o v.frac)
        zeros == IF Dots(text) = {} THEN <<>>
                 ELSE Repeat("0", Len(text) - Len(shown) - (IF v.frac = <<>> THEN 1 ELSE 0))
    IN  /\ Len(text) >= Len(shown)
        /\ text = shown \o (IF Dots(text) # {} /\ v.frac = <<>> THEN <<".">> ELSE <<>>)
                        \o zeros

RowIsOfBlock(row, seg) ==
    /\ row.file_name = seg[5]
    /\ HasUnderscore(seg[5])
    /\ row.dept = SecondToken(seg[5])
    /\ Len(row.audio_url) = Len(CLOUDFRONT_URL) + Len(seg[5])
    /\ SubSeq(row.audio_url, 1, Len(CLOUDFRONT_URL)) = CLOUDFRONT_URL
    /\ SubSeq(row.audio_url, Len(CLOUDFRONT_URL) + 1, Len(row.audio_url)) = seg[5]
    /\ IsValueOf(row.audio_duration_in_seconds, seg[4])
    /\ IsTrimOf(row.transcript, seg[6])

RowsAreOfBlocks(rows, segs) ==
    /\ Len(rows) = Len(segs)
    /\ \A i \in 1..Len(rows) : RowIsOfBlock(rows[i], segs[i])

\* The folders of the list, handled so far, that have a log.
ReadFolders == {k \in 1..fpos : ~NoLogFile(FolderAt(k))}

BlocksOf(k) == extract_segments(disk[FolderAt(k)].log)

(***************************************************************************)
(* C7 as stated: for every matched log block process_segments emits        *)
(* exactly one row (file_name, dept = token 1, audio_url = base URL +      *)
(* filename, duration, trimmed transcript), in block order.                *)
(***************************************************************************)
C7_OneRowPerMatchedBlock ==
    variant = "plain" =>
       \A k \in ReadFolders : RowsAreOfBlocks(contributed[k], BlocksOf(k))

(***************************************************************************)
(* C7 amended: when every matched block of the log has a filename with at  *)
(* least two '_' tokens and a duration text that denotes a number,         *)
(* process_segments emits exactly one row per block, in block order, with  *)
(* the stated fields; otherwise it raises and emits no row at all.  For    *)
(* 'STT_TT_D001_0001_0_to_3000.wav' the dept is 'TT'.                      *)
(***************************************************************************)
ProcessableBlock(seg) == HasUnderscore(seg[5]) /\ DecimalText(seg[4])

C7_OneRowPerBlockWhenAllProcessable ==
    variant = "plain" =>
       /\ \A k \in ReadFolders :
             IF \A seg \in Range(BlocksOf(k)) : ProcessableBlock(seg)
             THEN RowsAreOfBlocks(contributed[k], BlocksOf(k))
             ELSE contributed[k] = <<>>
       /\ \A k \in 1..fpos :
             FolderAt(k) = 1 =>
                /\ Len(contributed[k]) = 2
                /\ contributed[k][1].file_name = EXAMPLE_NAME
                /\ contributed[k][1].dept = <<"T", "T">>
                /\ contributed[k][1].audio_duration_in_seconds = [int |-> 3, frac |-> <<>>]
                /\ contributed[k][1].transcript = <<"h", "e", "l", "l", "o">>
                /\ contributed[k][2].transcript = <<"a", " ", "b">>
                /\ contributed[k][2].audio_duration_in_seconds = [int |-> 1, frac |-> <<"5">>]
       /\ pc = "done" => manifest.rows = Concat(contributed)

\* The run has ended with the rows of the folder the splitter filled and of
\* the folder whose blocks are out of order, all in the manifest.
C7_Witness ==
    /\ variant = "plain"
    /\ pc = "done"
    /\ audio_folders = <<1, 4>>
    /\ Len(manifest.rows) = 4
    /\ manifest.rows[1].dept = <<"T", "T">>

(***************************************************************************)
(* C9: generate_csv_file.process_audio_folders always ends by writing the  *)
(* manifest with the five-column header; when every folder fails or no     *)
(* block matches, the manifest holds the header and no data row.           *)
(***************************************************************************)
C9_ManifestAlwaysWritten ==
    variant = "plain" =>
       /\ pc \in {"folders", "done"}
       /\ pc = "done" =>
             /\ fpos = Len(audio_folders)
             /\ manifest.written
             /\ Len(manifest.header) = 5
             /\ manifest.header = MANIFEST_HEADER
             /\ manifest.rows = data
             /\ (\A k \in 1..Len(audio_folders) : RowsAlone(FolderAt(k)) = <<>>)
                   => manifest.rows = <<>>

\* The run has ended over two folders, one that failed and one whose only
\* block did not match: the manifest is written and has no row.
C9_Witness ==
    /\ variant = "plain"
    /\ pc = "done"
    /\ \E k, m \in 1..Len(audio_folders) :
          /\ ~TryFolder(FolderAt(k)).ok
          /\ TryFolder(FolderAt(m)).ok
    /\ manifest.written
    /\ manifest.rows = <<>>

(***************************************************************************)
(* C11: split_audio_file writes the two-line log header before it          *)
(* processes any timing row, overwriting any prior log.  No row is         *)
(* processed before the header is written; on entry to the row loop the    *)
(* log is exactly the header; and from then on the log is the header       *)
(* followed by one block per row appended in this run, in row order, with  *)
(* no block of an earlier run over the same output directory.              *)
(***************************************************************************)
\* The 1-based positions of the rows whose block was appended in this run.
AppendedRows(d) == Ascending({i \in 1..Len(RunOf(d)) : RunOf(d)[i] = "ok"})

\* The block lines an earlier run left in the log of StaleDir.
STALE_NAME == SegmentFilename(PREFIX_D002, 0, RowOld.start_time.n, RowOld.end_time.n)

STALE_TEXT == RowOld.transcription.s

SeparatorLines(s) == LinesAfter(s, Repeat("-", SEPARATOR_WIDTH))

C11_HeaderThenOnlyThisRunsBlocks ==
    variant = "single" =>
      /\ Len(RunOf(1)) > 0 => outcome[1].file = "split"
      /\ outcome[1].file = "split" =>
           LET log  == disk[1].log
               rows == AppendedRows(1)
           IN  /\ disk[1].has_log
               /\ StartsWith(log, LOG_HEADER)
               /\ RunOf(1) = <<>> => log = LOG_HEADER
               /\ LoggedNumbers(log) = rows
               /\ Len(LoggedFilenames(log)) = Len(rows)
               /\ Len(SeparatorLines(log)) = Len(rows)
               /\ \A k \in 1..Len(rows) :
                     /\ LoggedFilenames(log)[k] \in Range(exported[1])
                     /\ NumberInName(LoggedFilenames(log)[k]) = Pad4(rows[k])
               /\ STALE_NAME \notin Range(LoggedFilenames(log))
               /\ STALE_TEXT \notin Range(LoggedTranscriptions(log))

\* A finished run into a directory that held the log and the segment of an
\* earlier run: the old segment file is still there and the blocks of two
\* rows were appended.
C11_Witness ==
    /\ SplitFinished
    /\ STALE_NAME \in DOMAIN disk[1].files
    /\ Len(AppendedRows(1)) = 2
    /\ LoggedNumbers(disk[1].log) = <<1, 2>>

(***************************************************************************)
(* C12: within one run of split_audio_file a row's segment file is         *)
(* exported before its log block is appended.  In every state of the run   *)
(* each block in the log names a segment file written in this run and      *)
(* present in the output directory, the log holds no more blocks than      *)
(* segment files were written, and a row whose export succeeded but whose  *)
(* log append failed has left its file with no block.                      *)
(***************************************************************************)
\* The names exported in this run that carry row i's sequence number
\* (i is the 1-based row position).
ExportedFor(d, i) == {n \in Range(exported[d]) : NumberInName(n) = Pad4(i)}

C12_BlockOnlyAfterItsFile ==
    (variant = "single" /\ outcome[1].file = "split") =>
      LET names == LoggedFilenames(disk[1].log)
      IN  /\ \A k \in 1..Len(names) :
                /\ names[k] \in Range(exported[1])
                /\ names[k] \in DOMAIN disk[1].files
          /\ Len(names) <= Len(exported[1])
          /\ Len(LoggedNumbers(disk[1].log)) <= Cardinality(Range(exported[1]))
          /\ \A i \in 1..Len(RunOf(1)) :
                /\ RunOf(1)[i] = "log" =>
                      /\ ExportedFor(1, i) # {}
                      /\ ExportedFor(1, i) \subseteq DOMAIN disk[1].files
                      /\ ExportedFor(1, i) \cap Range(names) = {}
                /\ RunOf(1)[i] \in {"cast", "export"} =>
                      /\ ExportedFor(1, i) = {}
                      /\ i \notin Range(LoggedNumbers(disk[1].log))

\* One row was exported and logged, the other was exported and its log
\* append failed: two files written, one block.
C12_Witness ==
    /\ SplitFinished
    /\ Range(RunOf(1)) = {"ok", "log"}
    /\ Len(exported[1]) = 2
    /\ Len(LoggedFilenames(disk[1].log)) = 1
    /\ Range(exported[1]) \subseteq DOMAIN disk[1].files

====
